---- MODULE Spec2Model ----
(***************************************************************************)
(* The storage layer of html-annotator: the StorageAdapter (storage.js),   *)
(* the bundled backends noop and debug (storage.js), LocalStorage          *)
(* (storage/localStorage.js) over the key-value Store (storage/util.js),   *)
(* and HttpStorage (storage/httpStorage.js).                               *)
(*                                                                         *)
(* JavaScript objects are functions from property names to values; every   *)
(* value is a string.  One StorageAdapter call is one entry of `ops`; its  *)
(* promise chain advances one callback at a time, so that the callbacks of *)
(* different calls interleave as they do on the event loop.                *)
(***************************************************************************)
EXTENDS Integers, Sequences, FiniteSets, TLC

VARIABLES
    store,        \* StorageAdapter.store: which Storage implementation is wrapped
    obj,          \* the annotation objects the caller holds, by reference
    ops,          \* the StorageAdapter calls made so far, each with its position
    localStorage, \* window.localStorage: key -> serialized value
    cache,        \* LocalStorage.prototype.cache (shared by every instance)
    counter,      \* the session counter behind id() in storage.js
    location,     \* window.location.href
    errors,       \* every invocation of an onError function, in order
    adapters,     \* the StorageAdapter instances, each over its own backend instance
    options       \* HttpStorage.options of the HTTP backend

vars == <<store, obj, ops, localStorage, cache, counter, location, errors,
          adapters, options>>

----------------------------------------------------------------------------
(* Bounds of the model *)

\* The number of StorageAdapter calls in one behaviour.
MaxOps == 2

\* The annotation objects held by the caller.
Objs == {1}

----------------------------------------------------------------------------
(* JavaScript values and objects *)

UNDEF == "undefined"
NULL == "null"
EMPTY == <<>>

Has(o, k) == k \in DOMAIN o
Get(o, k) == IF k \in DOMAIN o THEN o[k] ELSE UNDEF
Put(o, k, v) == [x \in DOMAIN o \cup {k} |-> IF x = k THEN v ELSE o[x]]
Del(o, k) == [x \in DOMAIN o \ {k} |-> o[x]]

\* A JavaScript condition on a value: undefined, null and "" are falsy.
Truthy(v) == v \notin {UNDEF, NULL, ""}

\* typeof v === "undefined" || v === null
Missing(v) == v = UNDEF \/ v = NULL

\* $.extend(target, src): every property of src whose value is not undefined
\* is written on target.
Extend(target, src) ==
    LET ks == {k \in DOMAIN src : src[k] # UNDEF}
    IN  [x \in DOMAIN target \cup ks |-> IF x \in ks THEN src[x] ELSE target[x]]

\* JSON.stringify of an object: its properties with a defined value, as text
\* (here the set of its key/value pairs); JSON.parse reads it back.
JSONstringify(o) == {<<k, o[k]>> : k \in {x \in DOMAIN o : o[x] # UNDEF}}
JSONparse(s) == [k \in {p[1] : p \in s} |-> (CHOOSE p \in s : p[1] = k)[2]]

----------------------------------------------------------------------------
(* storage/util.js: the key-value Store over window.localStorage *)

KEY_PREFIX == "annotator.offline/"

prefixed(key) == KEY_PREFIX \o key

\* The error raised inside Store.set's catch block: Store has no publish method.
PublishTypeError == "TypeError: this.publish is not a function"

\* A variant of set that writes whatever the time is.
Store_set_anyTime(ls, key, value, time, quota) ==
    LET v == JSONstringify(value)
    IN  IF quota
        THEN [ls |-> ls, threw |-> PublishTypeError]
        ELSE [ls |-> Put(ls, prefixed(key), v), threw |-> ""]

\* A variant of set that writes under the key as given, without the prefix.
Store_set_unprefixed(ls, key, value, time, quota) ==
    LET v == JSONstringify(value)
    IN  IF time # 0
        THEN IF quota
             THEN [ls |-> ls, threw |-> PublishTypeError]
             ELSE [ls |-> Put(ls, key, v), threw |-> ""]
        ELSE [ls |-> ls, threw |-> ""]

\* Store.prototype.set(key, value, time) on storage ls; a time of 0 stands for
\* every falsy time, and `quota` says whether localStorage.setItem raises.
\* Gives the storage afterwards and what set threw ("" when it returned).
Store_set(ls, key, value, time, quota) ==
    LET v == JSONstringify(value)
    IN  IF time # 0
        THEN IF quota
             THEN [ls |-> ls, threw |-> PublishTypeError]
             ELSE [ls |-> Put(ls, prefixed(key), v), threw |-> ""]
        ELSE [ls |-> ls, threw |-> ""]

\* Store.prototype.remove(key)
Store_remove(ls, key) == Del(ls, prefixed(key))

\* Store.prototype.get(key): the parsed value; a missing key is removed and
\* JSON.parse(null) is null.
Store_get(ls, key) ==
    IF Has(ls, prefixed(key))
    THEN [ls |-> ls, value |-> JSONparse(ls[prefixed(key)]), null |-> FALSE]
    ELSE [ls |-> Store_remove(ls, key), value |-> EMPTY, null |-> TRUE]

\* key.indexOf(prefix) == 0
StartsWith(key, prefix) ==
    Len(key) >= Len(prefix) /\ SubSeq(key, 1, Len(prefix)) = prefix

\* The enumeration order of the keys of an object (for .. in).
RECURSIVE KeysOf(_)
KeysOf(S) ==
    IF S = {} THEN <<>>
    ELSE LET k == CHOOSE x \in S : TRUE IN <<k>> \o KeysOf(S \ {k})

\* Store.prototype.all(partial): the values of every key under the prefix.
Store_all(ls, partial) ==
    LET prefix == prefixed(partial)
        keys == SelectSeq(KeysOf(DOMAIN ls), LAMBDA k : StartsWith(k, prefix))
    IN  [i \in 1..Len(keys) |->
            Store_get(ls, SubSeq(keys[i], Len(KEY_PREFIX) + 1, Len(keys[i]))).value]

----------------------------------------------------------------------------
(* storage/localStorage.js: the Local backend *)

ANNOTATION_PREFIX == "annotation."

\* The expiry LocalStorage passes to Store.set.
StoreExpiry == 3600

\* UUID() as called by the i-th call of the session (a call generates at most
\* one identifier, and no two calls generate the same).
UUID(i) == "g" \o ToString(i)

\* A variant of getUniqueKey that derives the key and leaves the annotation
\* as it was.
getUniqueKey_keyOnly(annotation, fresh) ==
    IF Truthy(Get(annotation, "uuid"))
    THEN [annotation |-> annotation, key |-> annotation["uuid"]]
    ELSE [annotation |-> annotation, key |-> fresh]

\* LocalStorage.prototype.getUniqueKey(annotation), where UUID() would give
\* `fresh`: a truthy uuid is kept, otherwise the new one is written on the
\* annotation.
getUniqueKey(annotation, fresh) ==
    IF Truthy(Get(annotation, "uuid"))
    THEN [annotation |-> annotation, key |-> annotation["uuid"]]
    ELSE [annotation |-> Put(annotation, "uuid", fresh), key |-> fresh]

\* A variant of keyForStore that stores an annotation under its bare uuid.
keyForStore_bare(key) == key

keyForStore(key) == ANNOTATION_PREFIX \o key

\* What a backend method leaves behind: the annotation object it was given
\* (as mutated), the storage, the cache, the value of the id counter, the
\* errors it passed to onError, whether its persistence failed, whether it
\* threw to its caller instead of returning, and what the Store raised to it
\* ("" when the Store returned).
Outcome(annotation, ls, c, ctr) ==
    [annotation |-> annotation, ls |-> ls, cache |-> c, counter |-> ctr,
     onError |-> <<>>, failed |-> FALSE, threw |-> FALSE, raised |-> ""]

\* LocalStorage.prototype.addAnnotation / updateStoredAnnotation: the key is
\* derived (twice: the second derivation finds the uuid of the first) and the
\* annotation is written under it.
addAnnotation(annotation, ls, fresh, quota) ==
    LET g == getUniqueKey(annotation, fresh)
        h == getUniqueKey(g.annotation, fresh)
        s == Store_set(ls, keyForStore(h.key), h.annotation, StoreExpiry, quota)
    IN  [annotation |-> h.annotation, ls |-> s.ls, threw |-> s.threw]

\* A variant of create without the try/catch: an error thrown on the way
\* reaches the caller of create.
LocalStorage_create_uncaught(annotation, ls, c, ctr, loc, fresh, quota) ==
    LET a == Put(annotation, "uri", loc)
        r == addAnnotation(a, ls, fresh, quota)
    IN  IF r.threw = ""
        THEN Outcome(r.annotation, r.ls,
                     Put(c, Get(r.annotation, "id"), r.annotation), ctr)
        ELSE [Outcome(r.annotation, r.ls, c, ctr)
              EXCEPT !.threw = TRUE, !.failed = TRUE, !.raised = r.threw]

\* A variant of create that does not write the document's URI on the
\* annotation.
LocalStorage_create_noUri(annotation, ls, c, ctr, loc, fresh, quota) ==
    LET r == addAnnotation(annotation, ls, fresh, quota)
    IN  IF r.threw = ""
        THEN Outcome(r.annotation, r.ls,
                     Put(c, Get(r.annotation, "id"), r.annotation), ctr)
        ELSE [Outcome(r.annotation, r.ls, c, ctr)
              EXCEPT !.onError = <<r.threw>>, !.failed = TRUE, !.raised = r.threw]

\* LocalStorage.prototype.create(annotation): an error thrown on the way is
\* passed to this.onError, and the annotation is returned as it then is.
LocalStorage_create(annotation, ls, c, ctr, loc, fresh, quota) ==
    LET a == Put(annotation, "uri", loc)
        r == addAnnotation(a, ls, fresh, quota)
    IN  IF r.threw = ""
        THEN Outcome(r.annotation, r.ls,
                     Put(c, Get(r.annotation, "id"), r.annotation), ctr)
        ELSE [Outcome(r.annotation, r.ls, c, ctr)
              EXCEPT !.onError = <<r.threw>>, !.failed = TRUE, !.raised = r.threw]

\* A variant of update without the try/catch.
LocalStorage_update_uncaught(annotation, ls, c, ctr, loc, fresh, quota) ==
    LET r == addAnnotation(annotation, ls, fresh, quota)
    IN  IF r.threw = ""
        THEN Outcome(r.annotation, r.ls, c, ctr)
        ELSE [Outcome(r.annotation, r.ls, c, ctr)
              EXCEPT !.threw = TRUE, !.failed = TRUE, !.raised = r.threw]

\* A variant of update that enters the annotation in the cache, as create
\* does.
LocalStorage_update_cached(annotation, ls, c, ctr, loc, fresh, quota) ==
    LET r == addAnnotation(annotation, ls, fresh, quota)
    IN  IF r.threw = ""
        THEN Outcome(r.annotation, r.ls,
                     Put(c, Get(r.annotation, "id"), r.annotation), ctr)
        ELSE [Outcome(r.annotation, r.ls, c, ctr)
              EXCEPT !.onError = <<r.threw>>, !.failed = TRUE, !.raised = r.threw]

\* LocalStorage.prototype.update(annotation)
LocalStorage_update(annotation, ls, c, ctr, loc, fresh, quota) ==
    LET r == addAnnotation(annotation, ls, fresh, quota)
    IN  IF r.threw = ""
        THEN Outcome(r.annotation, r.ls, c, ctr)
        ELSE [Outcome(r.annotation, r.ls, c, ctr)
              EXCEPT !.onError = <<r.threw>>, !.failed = TRUE, !.raised = r.threw]

\* A variant of removeStoredAnnotation that removes the key of the cache from
\* the store as well.
removeStoredAnnotation_uuidKey(annotation, ls, c, fresh) ==
    LET g == getUniqueKey(annotation, fresh)
    IN  [annotation |-> g.annotation,
         ls |-> Store_remove(ls, g.key),
         cache |-> Del(c, g.key)]

\* LocalStorage.prototype.removeStoredAnnotation(annotation)
removeStoredAnnotation(annotation, ls, c, fresh) ==
    LET g == getUniqueKey(annotation, fresh)
        h == getUniqueKey(g.annotation, fresh)
    IN  [annotation |-> h.annotation,
         ls |-> Store_remove(ls, keyForStore(h.key)),
         cache |-> Del(c, g.key)]

\* LocalStorage.prototype.delete(annotation)
LocalStorage_delete(annotation, ls, c, ctr, loc, fresh, quota) ==
    LET r == removeStoredAnnotation(annotation, ls, c, fresh)
    IN  Outcome(r.annotation, r.ls, r.cache, ctr)

\* LocalStorage.prototype.loadAnnotationsFromStore(): the stored annotations
\* of the current document, and the cache refilled with them.
RECURSIVE loadInto(_, _, _, _)
loadInto(annotations, i, loc, acc) ==
    IF i > Len(annotations) THEN acc
    ELSE LET a == annotations[i]
         IN  IF Has(a, "uri") /\ a["uri"] = loc
             THEN loadInto(annotations, i + 1, loc,
                           [current |-> Append(acc.current, a),
                            cache |-> Put(acc.cache, Get(a, "id"), a)])
             ELSE loadInto(annotations, i + 1, loc, acc)

\* A variant of loadAnnotationsFromStore that keeps every stored annotation.
loadAnnotationsFromStore_unfiltered(ls, c, loc) ==
    [current |-> Store_all(ls, ANNOTATION_PREFIX), cache |-> c]

loadAnnotationsFromStore(ls, c, loc) ==
    loadInto(Store_all(ls, ANNOTATION_PREFIX), 1, loc,
             [current |-> <<>>, cache |-> c])

\* LocalStorage.prototype.query(queryObj)
LocalStorage_query(queryObj, ls, c, loc) ==
    LET r == loadAnnotationsFromStore(ls, c, loc)
    IN  [results |-> r.current, undefinedResults |-> FALSE,
         meta |-> [total |-> Len(r.current)], cache |-> r.cache]

----------------------------------------------------------------------------
(* storage/httpStorage.js: the HTTP backend *)

NoRequest == [method |-> "", url |-> "", data |-> EMPTY, params |-> EMPTY]

\* HttpStorage.prototype._methodFor(action)
methodFor(action) ==
    CASE action = "create" -> "POST"
      [] action = "update" -> "PUT"
      [] action = "destroy" -> "DELETE"
      [] action = "search" -> "GET"

\* HttpStorage.options.prefix and HttpStorage.options.urls, each url cut at
\* its {id} placeholder (when it has one).
UrlPrefix == "/store"
Urls(action) ==
    CASE action = "create" -> <<"/annotations">>
      [] action = "update" -> <<"/annotations/", "">>
      [] action = "destroy" -> <<"/annotations/", "">>
      [] action = "search" -> <<"/annotations/">>

\* HttpStorage.prototype._urlFor(action, id)
urlFor(action, id) ==
    LET i == IF Missing(id) THEN "" ELSE id
        t == Urls(action)
    IN  UrlPrefix \o (IF Len(t) = 2 THEN t[1] \o i \o t[2] ELSE t[1]) \o "/"

\* HttpStorage.prototype._apiRequest(action, obj) up to its await: obj is
\* stamped and the request is handed to axios.
apiRequest(action, o, loc, fresh) ==
    LET url == urlFor(action, Get(o, "id"))
        method == methodFor(action)
        stamped == Put(Put(Put(o, "uuid", fresh), "uri", loc), "user", "hello")
        data == IF method = "PUT" \/ method = "POST" THEN stamped ELSE EMPTY
        params == IF action = "search"
                  THEN [uri |-> stamped["uri"], user |-> stamped["user"]]
                  ELSE EMPTY
    IN  [obj |-> stamped,
         request |-> [method |-> method, url |-> url, data |-> data, params |-> params]]

\* The message HttpStorage.prototype._onError derives from xhr.status.
Message(status) ==
    CASE status = "400" -> "The annotation store did not understand the request! (Error 400)"
      [] status = "401" -> "You must be logged in to perform this operation! (Error 401)"
      [] status = "403" -> "You don't have permission to perform this operation! (Error 403)"
      [] status = "404" -> "Could not connect to the annotation store! (Error 404)"
      [] status = "500" -> "Internal error in annotation store! (Error 500)"
      [] OTHER -> "Unknown error while speaking to annotation store!"

\* HttpStorage.prototype._onError(xhr), called on an object `this` whose
\* onError property is a function or not: the messages passed to this.onError.
onError(thisHasOnError, xhr) ==
    IF ~thisHasOnError THEN <<>> ELSE <<Message(Get(xhr, "status"))>>

\* The page defines no global function named onError.
SelfHasOnError == FALSE

\* The catch block of _apiRequest, this._onError.apply(self, arguments): the
\* receiver is the global `self` (the window), whose onError is a function only
\* if the page defines one, and the first argument is the action, a string,
\* which has no status.  Gives the calls of an onError function it makes.
apiRequestCatch(action, o, error, selfHasOnError) ==
    [receiver |-> "self", messages |-> onError(selfHasOnError, EMPTY),
     threw |-> FALSE]

\* The callback of HttpStorage.prototype.query on what _apiRequest resolved to.
queryThen(o) ==
    [results |-> IF Has(o, "rows") THEN o["rows"] ELSE <<>>,
     undefinedResults |-> ~Has(o, "rows"),
     meta |-> Del(o, "rows")]

----------------------------------------------------------------------------
(* storage.js: the noop and debug backends *)

\* id(): the counter is incremented and returned.
id(ctr) == ctr + 1

\* noop().create(annotation)
noop_create(annotation, ls, c, ctr, loc, fresh, quota) ==
    IF Missing(Get(annotation, "id"))
    THEN Outcome(Put(annotation, "id", ToString(id(ctr))), ls, c, id(ctr))
    ELSE Outcome(annotation, ls, c, ctr)

\* debug().create(annotation)
debug_create(annotation, ls, c, ctr, loc, fresh, quota) ==
    Outcome(Put(annotation, "id", ToString(id(ctr))), ls, c, id(ctr))

\* noop and debug: update(annotation), delete(annotation)
identity(annotation, ls, c, ctr, loc, fresh, quota) ==
    Outcome(annotation, ls, c, ctr)

----------------------------------------------------------------------------
(* storage.js: the StorageAdapter *)

Stores == {"local", "http", "noop", "debug", "stub"}

\* The position of a call in its promise chain.
\*   before    the before-hook has been run and has not settled
\*   inflight  the backend method has returned a promise that has not settled
\*   settled   the backend's result is known; the second callback of _cycle
\*             (or the callback of load) has not run yet
\*   done      the call's promise is resolved
\*   rejected  the call's promise is rejected
\*   threw     the call threw before returning a promise
\* `called` is the caller's object as it was when the call was made, `arg`
\* the object handed to the backend method, `ret` what the backend's result
\* settled to, `resolved` the reference the call's promise resolved to (one
\* of Objs, or -i for the copy made by call i) and `value` that object's
\* contents at that moment.  `after` holds the kinds of the backend calls
\* made for the same uuid after this call's own, and `raised` what the Store
\* raised to the backend method during the call.
NoData == [results |-> <<>>, undefinedResults |-> FALSE, meta |-> EMPTY]

NewOp(kind, target, called) ==
    [kind |-> kind, target |-> target, pc |-> "before", called |-> called,
     arg |-> EMPTY, ret |-> EMPTY, log |-> <<>>, failed |-> FALSE,
     status |-> "", response |-> EMPTY, request |-> NoRequest,
     resolved |-> 0, value |-> EMPTY, data |-> NoData, after |-> {},
     raised |-> "", adapter |-> "X", loaded |-> <<>>, given |-> EMPTY,
     key |-> "", time |-> 0, rejection |-> "", afterHook |-> ""]

\* The name of a StorageAdapter method as an HttpStorage action.
Action(kind) ==
    CASE kind = "create" -> "create"
      [] kind = "update" -> "update"
      [] kind = "delete" -> "destroy"
      [] OTHER -> "search"

\* self.store[storeFunc](safeCopy) for a backend whose method returns a value.
StoreCall(st, kind, safeCopy, ls, c, ctr, loc, fresh, quota) ==
    CASE st = "local" /\ kind = "create" ->
            LocalStorage_create(safeCopy, ls, c, ctr, loc, fresh, quota)
      [] st = "local" /\ kind = "update" ->
            LocalStorage_update(safeCopy, ls, c, ctr, loc, fresh, quota)
      [] st = "local" /\ kind = "delete" ->
            LocalStorage_delete(safeCopy, ls, c, ctr, loc, fresh, quota)
      [] st = "noop" /\ kind = "create" ->
            noop_create(safeCopy, ls, c, ctr, loc, fresh, quota)
      [] st = "debug" /\ kind = "create" ->
            debug_create(safeCopy, ls, c, ctr, loc, fresh, quota)
      [] OTHER -> identity(safeCopy, ls, c, ctr, loc, fresh, quota)

\* A variant of the check that looks for an undefined uuid only.
MissingId_undefinedOnly(o) == Get(o, "uuid") = UNDEF

\* The check StorageAdapter.update and StorageAdapter.delete make on entry.
MissingId(o) == Missing(Get(o, "uuid"))

\* A variant of SafeCopy that copies the annotation with its _local field.
SafeCopy_withLocal(o) == Extend(EMPTY, o)

\* _cycle's first steps: $.extend(true, {}, obj) and delete safeCopy._local
SafeCopy(o) == Del(Extend(EMPTY, o), "_local")

\* _cycle's second callback: obj is emptied but for _local and extended with
\* the store's return value, and the after-hook is run.
Emptied(o) == [k \in DOMAIN o \cap {"_local"} |-> o[k]]
Merged(o, ret) == Extend(Emptied(o), ret)

\* Variants of the second callback: one that runs the after-hook before it
\* touches obj, and one that extends obj without emptying it first.
CycleSettled_hookFirst(o, a) ==
    [obj |-> Merged(a, o.ret), log |-> o.log \o <<"after", "merge">>,
     resolved |-> o.target]

CycleSettled_notEmptied(o, a) ==
    [obj |-> Extend(a, o.ret), log |-> o.log \o <<"merge", "after">>,
     resolved |-> o.target]

\* A variant of the second callback in which what the object holds by then
\* wins over the store's return value.
CycleSettled_objWins(o, a) ==
    [obj |-> Extend(o.ret, a), log |-> o.log \o <<"merge", "after">>,
     resolved |-> o.target]

\* What the second callback of call o leaves: the caller's object a after the
\* merge, the events in their order, and the object the promise resolves to
\* (obj itself, the caller's reference).
CycleSettled(o, a) ==
    [obj |-> Merged(a, o.ret), log |-> o.log \o <<"merge", "after">>,
     resolved |-> o.target]

\* StorageAdapter.prototype.create(obj)
StorageAdapter_create(t) ==
    /\ Len(ops) < MaxOps
    /\ \E x \in adapters :
          ops' = Append(ops, [NewOp("create", t, obj[t]) EXCEPT !.log = <<"before">>,
                                                               !.adapter = x])
    /\ UNCHANGED <<store, adapters, options, obj, localStorage, cache, counter, location, errors>>

\* StorageAdapter.prototype.update(obj) and StorageAdapter.prototype.delete(obj)
Checked(kind, t) ==
    IF MissingId(obj[t])
    THEN [NewOp(kind, t, obj[t]) EXCEPT !.pc = "threw"]
    ELSE [NewOp(kind, t, obj[t]) EXCEPT !.log = <<"before">>]

StorageAdapter_update(t) ==
    /\ Len(ops) < MaxOps
    /\ \E x \in adapters : ops' = Append(ops, [Checked("update", t) EXCEPT !.adapter = x])
    /\ UNCHANGED <<store, adapters, options, obj, localStorage, cache, counter, location, errors>>

StorageAdapter_delete(t) ==
    /\ Len(ops) < MaxOps
    /\ \E x \in adapters : ops' = Append(ops, [Checked("delete", t) EXCEPT !.adapter = x])
    /\ UNCHANGED <<store, adapters, options, obj, localStorage, cache, counter, location, errors>>

IsCycle(o) == o.kind \in {"create", "update", "delete"}

\* A handler of the before-hook changes the annotation in place.
beforeHook(i) ==
    /\ IsCycle(ops[i]) /\ ops[i].pc = "before"
    /\ Get(obj[ops[i].target], "text") # "hooked"
    /\ obj' = [obj EXCEPT ![ops[i].target] = Put(@, "text", "hooked")]
    /\ UNCHANGED <<store, adapters, options, ops, localStorage, cache, counter, location, errors>>

\* The promise of the before-hook rejects: neither callback of _cycle runs.
beforeHookRejects(i) ==
    /\ IsCycle(ops[i]) /\ ops[i].pc = "before"
    /\ ops' = [ops EXCEPT ![i].pc = "rejected"]
    /\ UNCHANGED <<store, adapters, options, obj, localStorage, cache, counter, location, errors>>

Reports(i, receiver, messages) ==
    [k \in 1..Len(messages) |-> [op |-> i, receiver |-> receiver, message |-> messages[k]]]

\* The record of a call whose backend call came earlier, once a backend call
\* of kind `kind` has been made with `annotation`.
Later(o, kind, annotation) ==
    IF /\ store = "local" /\ IsCycle(o) /\ o.pc \in {"settled", "done"}
       /\ Get(o.ret, "uuid") = Get(annotation, "uuid")
    THEN [o EXCEPT !.after = @ \cup {kind}]
    ELSE o

\* A variant of BeforeFulfilled in which the callbacks of all calls wait on
\* one another: none runs while the promise of some call is pending for good.
BeforeFulfilled_noneStalled(o) ==
    /\ IsCycle(o) /\ o.pc = "before"
    /\ \A k \in 1..Len(ops) : ops[k].pc # "stalled"

\* A variant of BeforeFulfilled in which the callback chained on the
\* before-hook also runs once the hook's promise has rejected.
BeforeFulfilled_orRejected(o) ==
    IsCycle(o) /\ (o.pc = "before" \/ (o.pc = "rejected" /\ o.log = <<"before">>))

\* A variant of Propagated in which the adapter rejects with an error of its
\* own that wraps the reason.
Propagated_wrapped(reason) == "Error: " \o reason

\* The reason the promise of a call rejects with when the promise of the
\* backend rejected with `reason`: neither .then of _cycle, nor Promise.resolve
\* in query, has a callback for a rejection, so the reason passes through.
Propagated(reason) == reason

\* The promise of the before-hook is one that .then's first callback runs
\* for: it has not rejected.
BeforeFulfilled(o) == IsCycle(o) /\ o.pc = "before"

\* _cycle's first callback: the before-hook has resolved.
cycleCall(i) ==
    /\ BeforeFulfilled(ops[i])
    /\ LET o == ops[i]
           safeCopy == SafeCopy(obj[o.target])
           called == [o EXCEPT !.log = @ \o <<"beforeSettled", "backend">>,
                               !.given = safeCopy]
       IN  CASE store = "http" ->
                  LET r == apiRequest(Action(o.kind), safeCopy, location, UUID(i))
                  IN  /\ ops' = [ops EXCEPT ![i] = [called EXCEPT !.pc = "inflight",
                                     !.arg = r.obj, !.request = r.request]]
                      /\ UNCHANGED <<localStorage, cache, counter, errors>>
             [] store = "stub" ->
                  /\ ops' = [ops EXCEPT ![i] = [called EXCEPT !.pc = "inflight",
                                     !.arg = safeCopy]]
                  /\ UNCHANGED <<localStorage, cache, counter, errors>>
             [] OTHER ->
                  \E quota \in BOOLEAN :
                    LET out == StoreCall(store, o.kind, safeCopy, localStorage,
                                         cache, counter, location, UUID(i), quota)
                    IN  /\ ops' = [k \in 1..Len(ops) |->
                                   IF k = i
                                   THEN [called EXCEPT
                                           !.pc = IF out.threw THEN "rejected" ELSE "settled",
                                           !.arg = out.annotation, !.ret = out.annotation,
                                           !.failed = out.failed,
                                           !.raised = out.raised,
                                           !.rejection = IF out.threw
                                                         THEN Propagated(out.raised)
                                                         ELSE ""]
                                   ELSE Later(ops[k], o.kind, out.annotation)]
                        /\ localStorage' = out.ls
                        /\ cache' = out.cache
                        /\ counter' = out.counter
                        /\ errors' = errors \o Reports(i, "storage", out.onError)
    /\ UNCHANGED <<store, adapters, options, obj, location>>

\* A variant of CycleReturns in which the second callback returns the promise
\* of the after-hook, so that the call waits for it.
CycleReturns_afterHook == "after"

\* Where the second callback leaves the call: it has run the after-hook
\* without keeping its promise and returned obj, so the call is resolved.
CycleReturns == "done"

\* _cycle's second callback: the backend's result has settled.
cycleSettle(i) ==
    /\ IsCycle(ops[i]) /\ ops[i].pc = "settled"
    /\ LET r == CycleSettled(ops[i], obj[ops[i].target])
       IN  /\ obj' = [obj EXCEPT ![ops[i].target] = r.obj]
           /\ ops' = [ops EXCEPT ![i].pc = CycleReturns, ![i].log = r.log,
                                 ![i].resolved = r.resolved, ![i].value = r.obj]
    /\ UNCHANGED <<store, adapters, options, localStorage, cache, counter, location, errors>>

\* The statuses of a failed response, and the bodies of a successful one.
Statuses == {"404", "503"}
Responses(kind) ==
    IF kind \in {"query", "load"}
    THEN {[rows |-> <<[uuid |-> "a"]>>, total |-> "1"]}
    ELSE {[id |-> "7"]}

\* _apiRequest after its await: axios has settled.  A response is dropped, a
\* failure goes through the catch block, and obj is returned either way; for
\* a query the callback of HttpStorage.prototype.query follows.
apiRequestSettled(o, i, failed, status, response, selfHasOnError) ==
    LET c == apiRequestCatch(Action(o.kind), o.arg, status, selfHasOnError)
        reports == IF failed THEN Reports(i, c.receiver, c.messages) ELSE <<>>
        p == [o EXCEPT !.failed = failed, !.status = status, !.response = response]
    IN  IF failed /\ c.threw
        THEN [op |-> [p EXCEPT !.pc = "rejected"], errors |-> reports]
        ELSE IF IsCycle(o)
        THEN [op |-> [p EXCEPT !.pc = "settled", !.ret = o.arg], errors |-> reports]
        ELSE [op |-> [p EXCEPT !.pc = IF o.kind = "load" THEN "settled" ELSE "done",
                               !.data = queryThen(o.arg), !.arg = Del(o.arg, "rows")],
              errors |-> reports]

axiosSettles(i) ==
    /\ store = "http" /\ ops[i].pc = "inflight"
    /\ \/ \E response \in Responses(ops[i].kind) :
            LET r == apiRequestSettled(ops[i], i, FALSE, "", response, FALSE)
            IN  /\ ops' = [ops EXCEPT ![i] = r.op]
                /\ errors' = errors \o r.errors
       \/ \E status \in Statuses :
            LET r == apiRequestSettled(ops[i], i, TRUE, status, EMPTY, SelfHasOnError)
            IN  /\ ops' = [ops EXCEPT ![i] = r.op]
                /\ errors' = errors \o r.errors
    /\ UNCHANGED <<store, adapters, options, obj, localStorage, cache, counter, location>>

\* A Storage implementation given to the adapter whose methods return
\* promises: the promise resolves (to the object it was given or to an object
\* of its own) or rejects.
StubReasons == {"E1"}
StubReturns(o) ==
    IF IsCycle(o) THEN {o.arg, [id |-> "7"]} ELSE {EMPTY}

stubSettles(i) ==
    /\ store = "stub" /\ ops[i].pc = "inflight"
    /\ \/ \E ret \in StubReturns(ops[i]) :
            ops' = [ops EXCEPT ![i].pc = IF ops[i].kind = "query" THEN "done" ELSE "settled",
                               ![i].ret = ret]
       \/ \E reason \in StubReasons :
            ops' = [ops EXCEPT ![i].pc = "rejected", ![i].raised = reason,
                               ![i].rejection = Propagated(reason)]
    /\ UNCHANGED <<store, adapters, options, obj, localStorage, cache, counter, location, errors>>

\* StorageAdapter.prototype.query(query): this.store.query(query), called with
\* the caller's query object.
Queried(kind) ==
    LET o == [NewOp(kind, 0, [uri |-> location]) EXCEPT !.log = <<"query">>]
        after == IF kind = "load" THEN "settled" ELSE "done"
    IN  CASE store = "local" ->
               LET r == LocalStorage_query(o.called, localStorage, cache, location)
               IN  [op |-> [o EXCEPT !.pc = after, !.arg = o.called,
                            !.data = [results |-> r.results,
                                      undefinedResults |-> r.undefinedResults,
                                      meta |-> r.meta]],
                    cache |-> r.cache]
          [] store = "http" ->
               LET r == apiRequest("search", o.called, location, UUID(Len(ops) + 1))
               IN  [op |-> [o EXCEPT !.pc = "inflight", !.arg = r.obj,
                            !.request = r.request],
                    cache |-> cache]
          [] store = "stub" ->
               [op |-> [o EXCEPT !.pc = "inflight", !.arg = o.called],
                cache |-> cache]
          [] store = "debug" ->
               [op |-> [o EXCEPT !.pc = after, !.arg = o.called,
                        !.data = [NoData EXCEPT !.meta = [total |-> 0]]],
                cache |-> cache]
          [] OTHER ->
               [op |-> [o EXCEPT !.pc = after, !.arg = o.called],
                cache |-> cache]

StorageAdapter_query ==
    /\ Len(ops) < MaxOps
    /\ \E x \in adapters :
          LET r == Queried("query")
          IN  /\ ops' = Append(ops, [r.op EXCEPT !.adapter = x])
              /\ cache' = r.cache
    /\ UNCHANGED <<store, adapters, options, obj, localStorage, counter, location, errors>>

\* StorageAdapter.prototype.load(query)
StorageAdapter_load ==
    /\ Len(ops) < MaxOps
    /\ \E x \in adapters :
          LET r == Queried("load")
          IN  /\ ops' = Append(ops, [r.op EXCEPT !.adapter = x])
              /\ cache' = r.cache
    /\ UNCHANGED <<store, adapters, options, obj, localStorage, counter, location, errors>>

\* A variant of HookArguments that hands the hook what the query resolved to.
HookArguments_data(data) == <<data>>

\* The arguments load's callback gives the hook: [data.results], where
\* data.results may be undefined.
HookArguments(data) ==
    <<[results |-> data.results, undefinedResults |-> data.undefinedResults]>>

\* The callback of load: the annotationsLoaded hook is run with data.results.
loadThen(i) ==
    /\ ops[i].kind = "load" /\ ops[i].pc = "settled"
    /\ ops' = [ops EXCEPT ![i].pc = "done", ![i].log = @ \o <<"annotationsLoaded">>,
                          ![i].loaded = HookArguments(ops[i].data)]
    /\ UNCHANGED <<store, adapters, options, obj, localStorage, cache, counter, location, errors>>

\* HttpStorage.prototype.setHeader(key, value)
HeaderNames == {"X-Token"}
HeaderValues == {"v1"}
HttpStorage_setHeader(key, value) ==
    /\ store = "http"
    /\ options' = [options EXCEPT !.headers = Put(@, key, value)]
    /\ UNCHANGED <<store, adapters, obj, ops, localStorage, cache, counter, location, errors>>

----------------------------------------------------------------------------
(* The states the session starts in *)

Fresh == [text |-> "t1", _local |-> "L"]
Saved == [uuid |-> "u1", uri |-> "p1", text |-> "t1"]
Nulled == [uuid |-> NULL, text |-> "t1"]
Elsewhere == [uuid |-> "u2", uri |-> "p2", text |-> "t2"]
Draft == [uuid |-> "u3", text |-> "t3"]

InitAnnotations == {Fresh, Saved, Nulled}

\* window.localStorage as earlier sessions left it: empty, or holding an
\* annotation of this page, one of another page, one that was stored without
\* a uri, and a key of another program.  The keys under KEY_PREFIX hold what
\* Store.set wrote.
Populated ==
    (prefixed(keyForStore("u1")) :> JSONstringify(Saved))
        @@ (prefixed(keyForStore("u2")) :> JSONstringify(Elsewhere))
        @@ (prefixed(keyForStore("u3")) :> JSONstringify(Draft))
        @@ ("theme" :> JSONstringify([dark |-> "yes"]))
InitStorages == {EMPTY, Populated}

\* HttpStorage.options as the class declares it, and as a caller may construct
\* the backend.
DefaultOptions == [emulateHTTP |-> FALSE, emulateJSON |-> FALSE, headers |-> EMPTY]
ConstructedOptions ==
    {[DefaultOptions EXCEPT !.emulateHTTP = h, !.emulateJSON = j] : h, j \in BOOLEAN}

\* The state once an application has wrapped a backend of kind s.
Wrapped(s, held) ==
    /\ store = s
    /\ obj \in [held -> InitAnnotations]
    /\ ops = <<>>
    /\ localStorage \in IF s = "local" THEN InitStorages ELSE {EMPTY}
    /\ cache = EMPTY
    /\ counter = -1
    /\ location = "p1"
    /\ errors = <<>>

Constructed(s) == Wrapped(s, Objs)

Init ==
    /\ \E s \in Stores : Constructed(s)
    /\ adapters = {"X"}
    /\ options = DefaultOptions

\* The steps of the adapter over a backend whose methods return values.
Calls ==
    \/ \E t \in DOMAIN obj : StorageAdapter_create(t)
    \/ \E t \in DOMAIN obj : StorageAdapter_update(t)
    \/ \E t \in DOMAIN obj : StorageAdapter_delete(t)
    \/ StorageAdapter_query
    \/ StorageAdapter_load
    \/ \E i \in 1..Len(ops) : beforeHook(i)
    \/ \E i \in 1..Len(ops) : beforeHookRejects(i)
    \/ \E i \in 1..Len(ops) : cycleCall(i)
    \/ \E i \in 1..Len(ops) : cycleSettle(i)
    \/ \E i \in 1..Len(ops) : loadThen(i)

Next ==
    \/ Calls
    \/ \E i \in 1..Len(ops) : axiosSettles(i)
    \/ \E i \in 1..Len(ops) : stubSettles(i)

\* The adapter over any of the Storage implementations.
Spec == Init /\ [][Next]_vars

\* The adapter over the Local backend.
InitLocal == Init /\ store = "local"
SpecLocal == InitLocal /\ [][Calls]_vars

\* Two adapters, each over its own Local backend instance; the instances
\* share window.localStorage and LocalStorage.prototype.cache.  The storage
\* holds the records of earlier sessions and the caller holds a new annotation
\* or a stored one.
InitShared ==
    /\ Constructed("local")
    /\ localStorage = Populated
    /\ obj \in [Objs -> {Fresh, Saved}]
    /\ adapters = {"X", "Y"}
    /\ options = DefaultOptions
SpecShared == InitShared /\ [][Calls]_vars

\* The promise a before-hook returned, or the one the backend returned, never
\* settles: no callback chained on it ever runs.
beforeHookHangs(i) ==
    /\ IsCycle(ops[i]) /\ ops[i].pc = "before"
    /\ ops' = [ops EXCEPT ![i].pc = "stalled"]
    /\ UNCHANGED <<store, adapters, options, obj, localStorage, cache, counter, location, errors>>

backendHangs(i) ==
    /\ ops[i].pc = "inflight"
    /\ ops' = [ops EXCEPT ![i].pc = "stalled"]
    /\ UNCHANGED <<store, adapters, options, obj, localStorage, cache, counter, location, errors>>

\* The promise the after-hook returned settles, fulfilled or rejected; nothing
\* is chained on it.
afterHookSettles(i) ==
    /\ IsCycle(ops[i]) /\ "after" \in {ops[i].log[k] : k \in 1..Len(ops[i].log)}
    /\ ops[i].afterHook = ""
    /\ \E outcome \in {"fulfilled", "rejected"} :
          ops' = [ops EXCEPT ![i].afterHook = outcome]
    /\ UNCHANGED <<store, adapters, options, obj, localStorage, cache, counter, location, errors>>

\* The adapter with two annotations in the caller's hands, over a backend
\* whose methods return promises, making create, update and delete calls; a
\* promise either settles or is one that never will, and the callbacks
\* chained on a promise that settles are run.
InitPending ==
    /\ Wrapped("stub", {1, 2})
    /\ obj = <<Saved, Fresh>>
    /\ adapters = {"X"}
    /\ options = DefaultOptions
NextPending ==
    \/ \E t \in DOMAIN obj : StorageAdapter_create(t)
    \/ \E t \in DOMAIN obj : StorageAdapter_update(t)
    \/ \E t \in DOMAIN obj : StorageAdapter_delete(t)
    \/ \E i \in 1..Len(ops) : cycleCall(i)
    \/ \E i \in 1..Len(ops) : cycleSettle(i)
    \/ \E i \in 1..Len(ops) : stubSettles(i)
    \/ \E i \in 1..Len(ops) : beforeHookHangs(i)
    \/ \E i \in 1..Len(ops) : backendHangs(i)
Settling ==
    /\ WF_vars(\E i \in 1..Len(ops) : cycleCall(i))
    /\ WF_vars(\E i \in 1..Len(ops) : cycleSettle(i))
    /\ WF_vars(\E i \in 1..Len(ops) : stubSettles(i))
SpecPending == InitPending /\ [][NextPending]_vars /\ Settling

\* The same calls, with the promises of the after-hooks settling or not.
NextAfter ==
    \/ NextPending
    \/ \E i \in 1..Len(ops) : afterHookSettles(i)
SpecAfter == InitPending /\ [][NextAfter]_vars

\* A method of the Local backend called by the application itself, without
\* the adapter: create, update or delete of an annotation the caller passes.
DirectAnnotations ==
    {[text |-> "t1"], [text |-> "t1", uri |-> "p1"], [text |-> "t1", uri |-> "p2"],
     Nulled, Saved}

LocalStorage_call(kind, annotation, quota) ==
    /\ store = "local" /\ Len(ops) < MaxOps
    /\ LET i == Len(ops) + 1
           out == StoreCall("local", kind, annotation, localStorage, cache, counter,
                            location, UUID(i), quota)
       IN  /\ ops' = Append(ops, [NewOp(kind, 0, annotation) EXCEPT
                                   !.pc = IF out.threw THEN "rejected" ELSE "done",
                                   !.log = <<"backend">>, !.given = annotation,
                                   !.arg = out.annotation, !.ret = out.annotation,
                                   !.failed = out.failed, !.raised = out.raised])
           /\ localStorage' = out.ls
           /\ cache' = out.cache
           /\ counter' = out.counter
           /\ errors' = errors \o Reports(i, "storage", out.onError)
    /\ UNCHANGED <<store, adapters, options, obj, location>>

\* Store.prototype.set(key, value, time) called by the application itself.
SetKeys == {"k", keyForStore("u1")}
SetValues == {[a |-> "1"], [a |-> "1", b |-> UNDEF]}
SetTimes == {0, StoreExpiry}

Store_call(key, value, time, quota) ==
    /\ store = "local" /\ Len(ops) < MaxOps
    /\ LET s == Store_set(localStorage, key, value, time, quota)
       IN  /\ ops' = Append(ops, [NewOp("set", 0, value) EXCEPT
                                   !.pc = IF s.threw = "" THEN "done" ELSE "rejected",
                                   !.given = value, !.key = key, !.time = time,
                                   !.failed = s.threw # "", !.raised = s.threw])
           /\ localStorage' = s.ls
    /\ UNCHANGED <<store, adapters, options, obj, cache, counter, location, errors>>

\* The Local backend and its Store called directly, and queried through the
\* adapter.
NextDirect ==
    \/ \E kind \in {"create", "update", "delete"}, annotation \in DirectAnnotations,
          quota \in BOOLEAN : LocalStorage_call(kind, annotation, quota)
    \/ \E key \in SetKeys, value \in SetValues, time \in SetTimes, quota \in BOOLEAN :
          Store_call(key, value, time, quota)
    \/ StorageAdapter_query
SpecDirect == InitLocal /\ [][NextDirect]_vars

\* The adapter over the HTTP backend.
InitHttp ==
    /\ Constructed("http")
    /\ adapters = {"X"}
    /\ options \in ConstructedOptions
NextHttp ==
    \/ Calls
    \/ \E i \in 1..Len(ops) : axiosSettles(i)
    \/ \E key \in HeaderNames, value \in HeaderValues : HttpStorage_setHeader(key, value)
SpecHttp == InitHttp /\ [][NextHttp]_vars

----------------------------------------------------------------------------
(* Properties *)

\* The events of a create, update or delete call, in the order _cycle
\* produces them.
FullLog == <<"before", "beforeSettled", "backend", "merge", "after">>
IsPrefix(s, t) == Len(s) <= Len(t) /\ s = SubSeq(t, 1, Len(s))
CycleOps == {i \in 1..Len(ops) : IsCycle(ops[i])}

\* C1: for every create, update and delete call the recorded events are, in
\* this order, the before-hook run, the before-hook settled, the backend
\* method invoked, the caller's object cleared and merged, the after-hook
\* invoked: the backend is never invoked before the before-hook has settled
\* nor the after-hook before the merge, and a resolved call has them all.
C1_HookOrder ==
    \A i \in CycleOps :
        /\ IsPrefix(ops[i].log, FullLog)
        /\ ops[i].pc \in {"inflight", "settled"} => ops[i].log = SubSeq(FullLog, 1, 3)
        /\ ops[i].pc = "done" => ops[i].log = FullLog

\* A create and a delete have both resolved.
C1_Witness ==
    /\ Len(ops) = 2
    /\ ops[1].kind = "create" /\ ops[1].pc = "done"
    /\ ops[2].kind = "delete" /\ ops[2].pc = "done"

\* C2: when a create, update or delete resolves, the caller's object holds
\* exactly the fields the backend returned, with the values returned, plus
\* the _local field it had; every other field it had is gone.
C2_MergeSemantics ==
    \A i \in CycleOps :
        ops[i].pc = "done" =>
            LET v == ops[i].value
                ret == ops[i].ret
                own == DOMAIN ops[i].called \cap {"_local"}
            IN  /\ DOMAIN v = DOMAIN ret \cup own
                /\ \A k \in DOMAIN ret : v[k] = ret[k]
                /\ \A k \in own \ DOMAIN ret : v[k] = ops[i].called[k]

\* A create whose backend returned {id: 7} only has resolved, on an object
\* that had a text and a _local field.
C2_Witness ==
    \E i \in CycleOps :
        /\ ops[i].kind = "create" /\ ops[i].pc = "done"
        /\ ops[i].called = Fresh
        /\ ops[i].ret = [id |-> "7"]
        /\ obj[ops[i].target] = [id |-> "7", _local |-> "L"]

\* C3: on the Local backend, a create called with an object that has no uuid
\* resolves to that very object (the caller's reference, not the copy handed
\* to the backend), and the object carries a non-empty uuid from then on.
C3_CreateAssignsUuid ==
    \A i \in CycleOps :
        (/\ store = "local" /\ ops[i].kind = "create" /\ ops[i].pc = "done"
         /\ Missing(Get(ops[i].called, "uuid")))
        => /\ ops[i].resolved = ops[i].target
           /\ Truthy(Get(ops[i].value, "uuid"))
           /\ Truthy(Get(obj[ops[i].target], "uuid"))

\* A create of an object without a uuid property has resolved on the Local
\* backend, and the object carries the uuid generated during that call.
C3_Witness ==
    /\ store = "local" /\ Len(ops) = 1
    /\ ops[1].kind = "create" /\ ops[1].pc = "done" /\ ops[1].called = Fresh
    /\ obj[ops[1].target] =
           [uuid |-> UUID(1), uri |-> location, text |-> "t1", _local |-> "L"]

\* C4: an update or delete called with an object whose uuid is undefined or
\* null throws at once: its before-hook is never run, its backend method is
\* never invoked and no request is made, and the call itself leaves the
\* annotation objects, the storage, the cache and the error handlers alone.
C4_Step ==
    \A i \in 1..Len(ops') :
        (/\ ops'[i].kind \in {"update", "delete"}
         /\ Missing(Get(ops'[i].called, "uuid")))
        => /\ ops'[i].pc = "threw"
           /\ ops'[i].log = <<>>
           /\ ops'[i].arg = EMPTY /\ ops'[i].request = NoRequest
           /\ i > Len(ops) => /\ obj' = obj
                              /\ localStorage' = localStorage
                              /\ cache' = cache
                              /\ errors' = errors

QueryCalled ==
    /\ store = "local"
    /\ Len(ops') = Len(ops) + 1
    /\ ops'[Len(ops')].kind = "query"

\* The results of the query called in this step hold an entry with the uuid
\* the create of call i assigned.
Found(i) ==
    LET results == ops'[Len(ops')].data.results
    IN  \E k \in 1..Len(results) :
            Get(results[k], "uuid") = Get(ops[i].ret, "uuid")

\* The creates that have resolved.
Created == {i \in CycleOps : ops[i].kind = "create" /\ ops[i].pc = "done"}

BackendCalled(i) ==
    /\ i \in CycleOps
    /\ Len(ops[i].log) = 1 /\ Len(ops'[i].log) = 3

\* The key in window.localStorage of the record of annotation a.
RecordKey(a) == KEY_PREFIX \o ANNOTATION_PREFIX \o Get(a, "uuid")

\* The step is a call of StorageAdapter.delete on an object on which an
\* earlier delete has resolved.
DeletedAgain ==
    /\ Len(ops') = Len(ops) + 1
    /\ ops'[Len(ops')].kind = "delete"
    /\ \E i \in CycleOps : /\ ops[i].kind = "delete" /\ ops[i].pc = "done"
                             /\ ops[i].target = ops'[Len(ops')].target

\* C6: on the Local backend every delete, a repeated one included, returns
\* from the backend without throwing, rejecting or reporting an error, and
\* leaves no record under the annotation's uuid in the backing store; and a
\* delete through the adapter of an object that an earlier delete has
\* rewritten does not throw.
C6_Step ==
    /\ \A i \in 1..Len(ops) :
          (store = "local" /\ BackendCalled(i) /\ ops[i].kind = "delete")
          => /\ ops'[i].pc = "settled"
             /\ ~ops'[i].failed
             /\ errors' = errors
             /\ RecordKey(ops'[i].arg) \notin DOMAIN localStorage'
    /\ (store = "local" /\ DeletedAgain) => ops'[Len(ops')].pc # "threw"

C6_DeleteTwice == [][C6_Step]_vars

\* Two deletes of the annotation stored by an earlier session have resolved
\* on the Local backend; its record is gone and the other keys are not.
C6_Witness ==
    /\ store = "local" /\ Len(ops) = 2
    /\ \A i \in 1..2 : /\ ops[i].kind = "delete" /\ ops[i].pc = "done"
                         /\ ops[i].called = Saved
    /\ RecordKey(Saved) \notin DOMAIN localStorage
    /\ DOMAIN localStorage = {"theme", RecordKey(Elsewhere), RecordKey(Draft)}

\* C7: on the HTTP backend a query answered with {rows: R, ...rest} resolves
\* to {results: R, meta: rest}.
C7_QueryResult ==
    \A i \in 1..Len(ops) :
        (/\ store = "http" /\ ops[i].kind = "query" /\ ops[i].pc = "done"
         /\ ~ops[i].failed)
        => /\ ~ops[i].data.undefinedResults
           /\ ops[i].data.results = ops[i].response["rows"]
           /\ ops[i].data.meta = Del(ops[i].response, "rows")

\* The invocations of the configured onError handler made for call i.
HandlerCalls(i) ==
    SelectSeq(errors, LAMBDA e : e.op = i /\ e.receiver = "storage")

\* C8: on the HTTP backend, a request that fails in transport has the
\* configured onError handler invoked exactly once, with the message that
\* belongs to the status of the failed response.
C8_OnErrorOnce ==
    \A i \in 1..Len(ops) :
        (store = "http" /\ ops[i].failed)
        => /\ Len(HandlerCalls(i)) = 1
           /\ HandlerCalls(i)[1].message = Message(ops[i].status)

\* C9: a create, update or delete whose persistence failed (the write to the
\* backing store on the Local backend, the transport on the HTTP backend) is
\* never rejected, and once resolved it has resolved to the caller's object
\* with the events of a successful call, the after-hook included.
C9_FailureStillResolves ==
    \A i \in CycleOps :
        ops[i].failed
        => /\ ops[i].pc \in {"settled", "done"}
           /\ ops[i].pc = "done" => /\ ops[i].log = FullLog
                                    /\ ops[i].resolved = ops[i].target

\* A create whose write failed on the Local backend, or whose request failed
\* on the HTTP backend, has resolved next to a call that did not fail.
C9_Witness ==
    /\ Len(ops) = 2
    /\ ops[1].kind = "create" /\ ops[1].failed /\ ops[1].pc = "done"
    /\ IsCycle(ops[2]) /\ ~ops[2].failed /\ ops[2].pc = "done"
    /\ ops[1].log = ops[2].log

\* C10: on the Local and the HTTP backend, an annotation object that carries
\* a uuid carries the same uuid after every step.
C10_Step ==
    store \in {"local", "http"} =>
        \A t \in Objs :
            Truthy(Get(obj[t], "uuid"))
            => Get(obj'[t], "uuid") = Get(obj[t], "uuid")

C10_UuidStable == [][C10_Step]_vars

\* The step is a call of StorageAdapter.query or StorageAdapter.load.
Asked ==
    /\ Len(ops') = Len(ops) + 1
    /\ ops'[Len(ops')].kind \in {"query", "load"}

\* C11: no method of the Local backend throws to its caller.  A create,
\* update or delete returns the annotation it was given, and when the Store
\* raised an error during the method the configured onError handler is
\* invoked once, with that error, and not otherwise; a query returns a
\* results object.
C11_Step ==
    store = "local" =>
        /\ \A i \in 1..Len(ops) :
              BackendCalled(i)
              => /\ ops'[i].pc = "settled"
                 /\ ops'[i].ret = ops'[i].arg
                 /\ errors' = errors \o
                       (IF ops'[i].raised = "" THEN <<>>
                        ELSE <<[op |-> i, receiver |-> "storage",
                                message |-> ops'[i].raised]>>)
        /\ Asked => /\ ops'[Len(ops')].pc \in {"settled", "done"}
                    /\ ~ops'[Len(ops')].data.undefinedResults
                    /\ errors' = errors

C12_SetNeverRaises ==
    \A i \in CycleOps : store = "local" => ops[i].raised = ""

\* The calls of the Local backend that are the last made for their uuid.
LastOnUuid ==
    {i \in CycleOps : /\ store = "local"
                      /\ ops[i].pc \in {"settled", "done"}
                      /\ ops[i].after = {}}

\* Every record under the annotation prefix is under the key of its own uuid
\* (so there is one record per uuid at most).
OneRecordPerUuid ==
    \A k \in DOMAIN localStorage :
        StartsWith(k, KEY_PREFIX \o ANNOTATION_PREFIX)
        => k = RecordKey(JSONparse(localStorage[k]))

Stored(a) ==
    /\ RecordKey(a) \in DOMAIN localStorage
    /\ JSONparse(localStorage[RecordKey(a)]) = a

\* C13 as stated: on the Local backend there is one record per uuid at most;
\* when the last call for a uuid was a create or an update the record is
\* present and holds the annotation passed to it, and when it was a delete
\* the record is absent.
C13_Lifecycle_AsStated ==
    /\ OneRecordPerUuid
    /\ \A i \in LastOnUuid :
         IF ops[i].kind = "delete"
         THEN RecordKey(ops[i].arg) \notin DOMAIN localStorage
         ELSE Stored(ops[i].arg)

\* The same for the creates and updates whose write succeeded.
Lifecycle ==
    /\ OneRecordPerUuid
    /\ \A i \in LastOnUuid :
         /\ ops[i].kind = "delete" => RecordKey(ops[i].arg) \notin DOMAIN localStorage
         /\ (ops[i].kind # "delete" /\ ~ops[i].failed) => Stored(ops[i].arg)

\* C13: on the Local backend there is one record per uuid at most; when the
\* last call for a uuid was a create or an update whose write succeeded the
\* record is present and holds the annotation passed to it, when it was a
\* delete the record is absent, and a create or update whose write failed
\* leaves the backing store as it found it.
C13_Step ==
    /\ Lifecycle'
    /\ \A i \in 1..Len(ops) :
         (store = "local" /\ BackendCalled(i) /\ ops'[i].failed)
         => localStorage' = localStorage

C13_Lifecycle == [][C13_Step]_vars

\* The stored annotation has been updated after a before-hook changed its
\* text: the record holds the changed annotation; then it has been deleted.
C13_Witness ==
    /\ store = "local" /\ Len(ops) = 2
    /\ ops[1].kind = "update" /\ ops[1].pc = "done" /\ ~ops[1].failed
    /\ ops[1].arg = [Saved EXCEPT !["text"] = "hooked"]
    /\ ops[1].after = {"delete"}
    /\ ops[2].kind = "delete" /\ ops[2].pc = "done"
    /\ RecordKey(Saved) \notin DOMAIN localStorage

\* The records under the annotation prefix, as query would read them.
Records ==
    {JSONparse(localStorage[k]) :
        k \in {x \in DOMAIN localStorage :
                 StartsWith(x, KEY_PREFIX \o ANNOTATION_PREFIX)}}

\* C14: a query (or load) on the Local backend returns exactly the stored
\* records whose uri is the document's URI, each once, and meta.total is the
\* number of results.
C14_Step ==
    (store = "local" /\ Asked)
    => LET data == ops'[Len(ops')].data
           results == data.results
       IN  /\ ~data.undefinedResults
           /\ {results[k] : k \in 1..Len(results)}
                = {a \in Records : Has(a, "uri") /\ a["uri"] = location}
           /\ \A j, k \in 1..Len(results) : results[j] = results[k] => j = k
           /\ data.meta = [total |-> Len(results)]

C14_QueryFilter == [][C14_Step]_vars

\* A query has returned the one record of this page out of a storage that
\* also holds a record of another page and a record without a uri.
C14_Witness ==
    /\ store = "local" /\ Len(ops) = 1
    /\ ops[1].kind = "query" /\ ops[1].pc = "done"
    /\ ops[1].data.results = <<Saved>>
    /\ ops[1].data.meta = [total |-> 1]
    /\ {Elsewhere, Draft} \subseteq Records

\* The step is a query made through one adapter.
QueriedBy(y) == QueryCalled /\ ops'[Len(ops')].adapter = y

\* The creates whose backend call was made through adapter x and has returned,
\* with no later backend call of either instance on the uuid it stored.
CreatedIn(x) ==
    {i \in CycleOps : /\ ops[i].kind = "create" /\ ops[i].adapter = x
                      /\ ops[i].pc \in {"settled", "done"}
                      /\ ops[i].after = {}}

\* The results of the query called in this step hold the record the create of
\* call i returned.
Returned(i) ==
    LET results == ops'[Len(ops')].data.results
    IN  \E k \in 1..Len(results) : results[k] = ops[i].ret

C15_Step ==
    \A x \in adapters : \A y \in adapters \ {x} :
        QueriedBy(y) => \A i \in CreatedIn(x) : ~ops[i].failed => Returned(i)

Range(s) == {s[k] : k \in 1..Len(s)}

\* The calls whose before-hook rejected.
HookRejected == {i \in CycleOps : ops[i].pc = "rejected" /\ ops[i].log = <<"before">>}

\* The calls whose before-hook rejects in this step.
HookRejecting == {i \in CycleOps : i \notin HookRejected /\ i \in HookRejected'}

\* The calls that may still act: their before-hook is pending (its handlers
\* run), or the backend has returned and the second callback is to run.
Acting(t) ==
    {k \in CycleOps : ops[k].target = t /\ ops[k].pc \in {"before", "settled"}}

\* The step C16 speaks of: the rejection changes neither the storage nor the
\* caller's object; a call whose before-hook rejected stays as it is, with
\* no backend call, no after-hook and no resolution; and every later change
\* of the storage or of an object is the step of another call.
C16_Step ==
    /\ HookRejecting # {} => UNCHANGED <<obj, localStorage, cache, errors>>
    /\ \A i \in HookRejected :
          /\ ops'[i] = ops[i]
          /\ ops[i].resolved = 0 /\ ops[i].request = NoRequest
          /\ ops[i].arg = EMPTY
    /\ localStorage' # localStorage =>
          \E k \in CycleOps : ops[k].pc = "before" /\ "backend" \in Range(ops'[k].log)
    /\ \A t \in Objs : obj'[t] # obj[t] => Acting(t) # {}

\* C16: when the before-hook of a create, update or delete rejects, the
\* backend method is never called, the storage and the caller's object are
\* left as they were, the after-hook never fires and the call stays rejected.
C16_HookPrevents == [][C16_Step]_vars

\* The before-hook of an update of a stored annotation rejected: the call is
\* rejected with the before-hook alone in its log, and the storage and the
\* object are as they were at the start.
C16_Witness ==
    /\ store = "local" /\ Len(ops) = 1
    /\ ops[1].kind = "update" /\ ops[1].pc = "rejected"
    /\ ops[1].log = <<"before">>
    /\ obj[1] = Saved /\ localStorage = Populated

\* The calls of the HTTP backend that have handed a request to axios.
Requested == {i \in 1..Len(ops) : store = "http" /\ ops[i].request # NoRequest}

\* The method _methodFor gives for the request of call i.
MethodOf(i) ==
    methodFor(IF IsCycle(ops[i]) THEN Action(ops[i].kind) ELSE "search")

\* The request of call i has a header `name` with value `value`.
Carries(i, name, value) ==
    /\ "headers" \in DOMAIN ops[i].request
    /\ Get(ops[i].request.headers, name) = value

\* C17: on the HTTP backend, with options.emulateHTTP every update and delete
\* request is a POST with an X-HTTP-Method-Override header naming PUT or
\* DELETE, and is a PUT or DELETE without it; with options.emulateJSON the
\* body of a create or update is wrapped under the key "json"; whatever the
\* other option is.
C17_EmulationModes ==
    \A i \in Requested :
        LET r == ops[i].request
            method == MethodOf(i)
        IN  /\ (options.emulateHTTP /\ method \in {"PUT", "DELETE"})
                  => r.method = "POST" /\ Carries(i, "X-HTTP-Method-Override", method)
            /\ ~options.emulateHTTP => r.method = method
            /\ (options.emulateJSON /\ method \in {"PUT", "POST"} /\ IsCycle(ops[i]))
                  => Has(r.data, "json")

\* The step in which call i hands its request to axios.
Transmits(i) ==
    /\ i \in 1..Len(ops')
    /\ i \in Requested'
    /\ (i > Len(ops) \/ i \notin Requested)

\* The step C18 speaks of: a request handed to axios carries every header
\* that options.headers holds at that moment, those set by setHeader
\* included.
C18_Step ==
    \A i \in 1..Len(ops') :
        Transmits(i) =>
            \A name \in DOMAIN options.headers :
                /\ "headers" \in DOMAIN ops'[i].request
                /\ Get(ops'[i].request.headers, name) = options.headers[name]

\* C18: after setHeader(name, value), every request the HTTP backend makes
\* (create, update, delete, query) carries that header with that value,
\* together with every header of options.headers.
C18_HeadersSent == [][C18_Step]_vars

\* The loads called so far, and how often the hook of one has fired.
Loads == {i \in 1..Len(ops) : ops[i].kind = "load"}
Fired(o) == Cardinality({k \in 1..Len(o.log) : o.log[k] = "annotationsLoaded"})

\* The results list of what the query of a call resolved to (it may be
\* undefined).
ResultsOf(o) ==
    [results |-> o.data.results, undefinedResults |-> o.data.undefinedResults]

\* The step C19 speaks of, for a load that was called before it: the hook
\* fires at most once, only when the query has settled, with the results the
\* query resolved to; it never fires for a query that rejected; and a load
\* that has fired its hook is over.
C19_Step ==
    \A i \in Loads :
        /\ Fired(ops'[i]) <= 1
        /\ Fired(ops'[i]) > Fired(ops[i]) =>
              /\ ops[i].pc = "settled" /\ ops'[i].pc = "done"
              /\ ops[i].log = <<"query">>
              /\ ops'[i].data = ops[i].data
              /\ ops'[i].loaded = <<ResultsOf(ops[i])>>
        /\ ops[i].pc = "rejected" => ops'[i] = ops[i] /\ Fired(ops[i]) = 0
        /\ ops[i].pc = "done" => ops'[i] = ops[i] /\ Fired(ops[i]) = 1
        /\ ops[i].pc \in {"inflight", "settled"} => Fired(ops[i]) = 0

\* C19: load fires the annotationsLoaded hook once, after the backend query
\* has settled, with the results list of that query, and does not fire it
\* when the query rejects.
C19_LoadFiresOnce == [][C19_Step]_vars

\* A load on the Local backend has fired its hook, once, with the one record
\* of the page.
C19_Witness ==
    /\ store = "local" /\ Len(ops) = 1
    /\ ops[1].kind = "load" /\ ops[1].pc = "done"
    /\ ops[1].log = <<"query", "annotationsLoaded">>
    /\ ops[1].loaded = <<[results |-> <<Saved>>, undefinedResults |-> FALSE]>>

\* A load is left rejected, its hook unfired, by a backend whose query
\* rejected.
RejectedLoad ==
    /\ store = "stub" /\ Len(ops) = 1
    /\ ops[1].kind = "load" /\ ops[1].pc = "rejected" /\ ops[1].log = <<"query">>

\* The queries and loads that take a step: the call itself, the settling of
\* its request, the callback of load.
Asking ==
    {i \in 1..Len(ops') :
        /\ ops'[i].kind \in {"query", "load"}
        /\ (i > Len(ops) \/ ops'[i] # ops[i])}

\* The step C20 speaks of: on the Local and HTTP backends a step of a query
\* or load leaves the caller's query object as it was when the call was made,
\* and leaves the stored records and the caller's annotations alone.
C20_Step ==
    (store \in {"local", "http"} /\ Asking # {}) =>
        /\ \A i \in Asking : ops'[i].arg = ops'[i].called
        /\ localStorage' = localStorage
        /\ obj' = obj

\* C20: load(query) and query(query) leave the caller's query object
\* unchanged (no field added, removed or rewritten) and leave every stored
\* annotation record unchanged, on the Local and on the HTTP backend.
C20_QueryFrame == [][C20_Step]_vars

\* Call i has been made, and call i is over: it has resolved, rejected or
\* thrown, or a promise of its own pipeline is one that never settles.
Called(i) == i <= Len(ops)
Over(i) == i <= Len(ops) /\ ops[i].pc \in {"done", "rejected", "threw", "stalled"}

\* A call stalled by a promise that never settles takes no further step.
C21_Step ==
    \A i \in 1..Len(ops) : ops[i].pc = "stalled" => ops'[i] = ops[i]

\* C21: a hook or backend call that never settles stalls only its own
\* operation: that operation takes no later step of its pipeline, and every
\* other call, made before or after it, is eventually over, resolved if its
\* own hooks and backend call settle.
C21_StallsOnlyItself ==
    /\ [][C21_Step]_vars
    /\ \A i \in 1..MaxOps : Called(i) ~> Over(i)

\* The update of one annotation is stalled behind its before-hook, with the
\* backend never called, and the create of the other annotation, called
\* after it, has resolved.
C21_Witness ==
    /\ Len(ops) = 2
    /\ ops[1].kind = "update" /\ ops[1].target = 1 /\ ops[1].pc = "stalled"
    /\ ops[1].log = <<"before">>
    /\ ops[2].kind = "create" /\ ops[2].target = 2 /\ ops[2].pc = "done"

\* The calls whose second callback runs in this step.
Merging == {i \in CycleOps : ops[i].pc = "settled" /\ ops'[i].pc = "done"}

\* The step C22 speaks of: the second callback of a call takes no account of
\* the other calls on the same object.  Whatever they merged into the object
\* since this call's copy was taken is cleared, and the object is left with
\* its _local field and what the backend returned for that copy.
C22_Step ==
    \A i \in Merging :
        LET t == ops[i].target
            ret == ops[i].ret
        IN  /\ DOMAIN obj'[t] = DOMAIN ret \cup (DOMAIN obj[t] \cap {"_local"})
            /\ \A f \in DOMAIN ret : obj'[t][f] = ret[f]
            /\ ops'[i].ret = ret

\* C22: two update calls on the same object are not mutually excluded; the
\* merge of the one that runs last overwrites the merge of the other with a
\* result computed from a copy taken before that merge.
C22_UpdateRace == [][C22_Step]_vars

\* Two updates of the same object have resolved.  The copy of the first was
\* taken before the second merged (it holds no id), the second merged the
\* backend's {id: 7}, and the first merged last: the object is back to the
\* first call's copy and the second call's result is gone.
C22_Witness ==
    /\ store = "stub" /\ Len(ops) = 2
    /\ ops[1].kind = "update" /\ ops[2].kind = "update"
    /\ ops[1].target = ops[2].target
    /\ ops[1].pc = "done" /\ ops[2].pc = "done"
    /\ ops[1].arg = Saved /\ ops[1].ret = Saved
    /\ ops[2].arg = Saved /\ ops[2].ret = [id |-> "7"] /\ ops[2].value = [id |-> "7"]
    /\ obj[ops[1].target] = Saved

\* The same two calls with the same copies and the same results, merged in
\* the other order: the object is left with the second call's result.
UpdateRaceOtherOrder ==
    /\ store = "stub" /\ Len(ops) = 2
    /\ ops[1].kind = "update" /\ ops[2].kind = "update"
    /\ ops[1].pc = "done" /\ ops[2].pc = "done"
    /\ ops[1].arg = Saved /\ ops[1].ret = Saved
    /\ ops[2].arg = Saved /\ ops[2].ret = [id |-> "7"]
    /\ obj[ops[1].target] = [id |-> "7"]

\* The calls whose backend method is called in this step.
Handing ==
    {i \in CycleOps : "backend" \notin Range(ops[i].log)
                      /\ "backend" \in Range(ops'[i].log)}

\* The step C23 speaks of: the backend is given the fields the caller's
\* object has at that moment (the before-hook's changes included), without
\* _local, and what the backend does to the copy leaves the caller's object
\* as it was.
C23_Step ==
    \A i \in Handing :
        LET a == obj[ops[i].target]
            copied == {f \in DOMAIN a : f # "_local" /\ a[f] # UNDEF}
        IN  /\ DOMAIN ops'[i].given = copied
            /\ \A f \in copied : ops'[i].given[f] = a[f]
            /\ "_local" \notin DOMAIN ops'[i].arg
            /\ obj' = obj

\* C23: in every create, update and delete the backend method receives a
\* copy of the annotation taken after the before-hook, with the hook's
\* changes and without _local, and nothing the backend does to the copy
\* changes the caller's object before the merge.
C23_SafeCopy == [][C23_Step]_vars

\* A create on the Local backend, after a handler of the before-hook rewrote
\* the text: the backend was given the rewritten text without _local, it
\* wrote a uuid and a uri on the copy, and the caller's object has neither.
C23_Witness ==
    /\ store = "local" /\ Len(ops) = 1
    /\ ops[1].kind = "create" /\ ops[1].pc = "settled"
    /\ ops[1].called = Fresh
    /\ ops[1].given = [text |-> "hooked"]
    /\ ops[1].arg = [text |-> "hooked", uuid |-> UUID(1), uri |-> location]
    /\ obj[1] = [text |-> "hooked", _local |-> "L"]

\* The creates on the HTTP backend that have resolved after a response of the
\* server that assigns an id.
Assigned ==
    {i \in CycleOps : /\ store = "http" /\ ops[i].kind = "create"
                      /\ ops[i].pc = "done" /\ ~ops[i].failed
                      /\ Has(ops[i].response, "id")}

\* C24: after a create on the HTTP backend has succeeded with a response that
\* assigns an id, the caller's annotation carries that id, and the URL of a
\* following update or delete of that annotation has {id} replaced by it.
C24_BackendId ==
    \A i \in Assigned :
        /\ Get(ops[i].value, "id") = ops[i].response["id"]
        /\ \A k \in Requested :
              (/\ k > i /\ ops[k].target = ops[i].target
               /\ ops[k].kind \in {"update", "delete"}
               /\ \A j \in CycleOps : j > i /\ j < k => ops[j].target # ops[i].target)
              => ops[k].request.url = urlFor(Action(ops[k].kind), ops[i].response["id"])

\* C25: in every reachable state of the Local backend the cache maps uuid to
\* annotation: each key of the cache is the uuid of the annotation under it.
C25_CacheByUuid ==
    store = "local" => \A k \in DOMAIN cache : Get(cache[k], "uuid") = k

\* The step is a direct update of an annotation that has no uuid, and what a
\* create of the same annotation would leave in the same state.
UpdatesNew ==
    /\ Len(ops') = Len(ops) + 1
    /\ ops'[Len(ops')].kind = "update"
    /\ ~Truthy(Get(ops'[Len(ops')].given, "uuid"))
AsCreate(quota) ==
    LocalStorage_create(ops'[Len(ops')].given, localStorage, cache, counter,
                        location, UUID(Len(ops')), quota)

\* C26 as stated: on the Local backend, update of an annotation that has no
\* uuid leaves the storage, the returned annotation and the cache as create
\* of the same annotation would.
C26_UpdateAsCreate_AsStated ==
    [][UpdatesNew =>
         \E quota \in BOOLEAN :
             /\ localStorage' = AsCreate(quota).ls
             /\ ops'[Len(ops')].ret = AsCreate(quota).annotation
             /\ cache' = AsCreate(quota).cache]_vars

\* The step the amended C26 speaks of.
C26_Step ==
    UpdatesNew =>
        LET o == ops'[Len(ops')]
            key == prefixed(ANNOTATION_PREFIX \o UUID(Len(ops')))
        IN  /\ o.ret = Put(o.given, "uuid", UUID(Len(ops')))
            /\ key \notin DOMAIN localStorage
            /\ \A k \in DOMAIN localStorage :
                  k \in DOMAIN localStorage' /\ localStorage'[k] = localStorage[k]
            /\ ~o.failed => /\ DOMAIN localStorage' = DOMAIN localStorage \cup {key}
                            /\ localStorage'[key] = JSONstringify(o.ret)
            /\ o.failed => localStorage' = localStorage
            /\ cache' = cache
            /\ \E quota \in BOOLEAN :
                  /\ AsCreate(quota).failed = o.failed
                  /\ AsCreate(quota).annotation = Put(o.ret, "uri", location)
                  /\ Get(o.given, "uri") = location =>
                        /\ AsCreate(quota).ls = localStorage'
                        /\ AsCreate(quota).annotation = o.ret

\* C26: on the Local backend, update of an annotation that has no uuid
\* generates a new uuid, writes the record under the new key when the write
\* succeeds and leaves every existing record unchanged; it differs from
\* create in that it neither sets the annotation's uri nor writes the cache,
\* so the storage and the returned annotation are those of create when the
\* annotation already carries the uri of the page.
C26_UpdateAsCreate == [][C26_Step]_vars

\* A direct update of {text: t1} on the populated storage has written a
\* record with a new uuid and no uri, and the cache is still empty.
C26_Witness ==
    /\ store = "local" /\ Len(ops) = 1
    /\ ops[1].kind = "update" /\ ops[1].given = [text |-> "t1"] /\ ~ops[1].failed
    /\ ops[1].ret = [text |-> "t1", uuid |-> UUID(1)]
    /\ localStorage = Populated @@
          (prefixed(ANNOTATION_PREFIX \o UUID(1)) :> JSONstringify(ops[1].ret))
    /\ cache = EMPTY

\* The step is a direct call of Store.set, or a direct create or update of the
\* Local backend.
SetCalled ==
    /\ Len(ops') = Len(ops) + 1
    /\ ops'[Len(ops')].kind = "set"
Persisting ==
    /\ Len(ops') = Len(ops) + 1
    /\ ops'[Len(ops')].kind \in {"create", "update"}
    /\ ops'[Len(ops')].log = <<"backend">>

\* What get(key) returns: null for a key that is not stored.
GetOf(ls, key) ==
    IF Has(ls, KEY_PREFIX \o key) THEN <<JSONparse(ls[KEY_PREFIX \o key])>> ELSE <<>>

Defined(value) == [f \in {x \in DOMAIN value : value[x] # UNDEF} |-> value[f]]

\* The step the amended C27 speaks of.
C27_Step ==
    LET o == ops'[Len(ops')]
    IN  /\ (SetCalled /\ o.time = 0) =>
              /\ localStorage' = localStorage
              /\ o.pc = "done"
        /\ (SetCalled /\ o.time # 0 /\ o.pc = "done") =>
              /\ GetOf(localStorage', o.key) = <<Defined(o.given)>>
              /\ \A k \in SetKeys \ {o.key} :
                    GetOf(localStorage', k) = GetOf(localStorage, k)
        /\ (SetCalled /\ o.pc # "done") =>
              /\ o.time # 0
              /\ localStorage' = localStorage
        /\ (Persisting /\ ~o.failed) =>
              GetOf(localStorage', ANNOTATION_PREFIX \o o.ret["uuid"]) = <<Defined(o.ret)>>
        /\ (Persisting /\ o.failed) => localStorage' = localStorage

BackendRejecting ==
    {i \in CycleOps : /\ ops[i].pc # "rejected" /\ ops'[i].pc = "rejected"
                      /\ "backend" \in Range(ops'[i].log)}
BackendRejected ==
    {i \in CycleOps : ops[i].pc = "rejected" /\ "backend" \in Range(ops[i].log)}

\* The step C28 speaks of: the call rejects with the reason of the backend,
\* the object is left as it is, neither cleared nor merged, and from then on
\* the call takes no step: no merge, no after-hook.
C28_Step ==
    /\ \A i \in BackendRejecting :
          /\ ops'[i].raised # ""
          /\ ops'[i].rejection = ops'[i].raised
          /\ obj' = obj
          /\ ops'[i].log = SubSeq(FullLog, 1, 3)
    /\ \A i \in BackendRejected :
          /\ ops'[i] = ops[i]
          /\ ops[i].resolved = 0
          /\ ops[i].log = SubSeq(FullLog, 1, 3)

\* C28: when the backend's create, update or delete result rejects, the call
\* rejects with the same reason, the caller's object is left as the
\* before-hook left it, and the after-hook is never fired.
C28_BackendRejects == [][C28_Step]_vars

\* An update whose before-hook rewrote the text was rejected by the backend
\* with E1: the call has rejected with E1 and the object is as the hook left
\* it.
C28_Witness ==
    /\ store = "stub" /\ Len(ops) = 1
    /\ ops[1].kind = "update" /\ ops[1].pc = "rejected"
    /\ ops[1].raised = "E1" /\ ops[1].rejection = "E1"
    /\ ops[1].log = <<"before", "beforeSettled", "backend">>
    /\ obj[1] = Put(Saved, "text", "hooked")



\* The calls whose after-hook settles in this step.
AfterSettling ==
    {i \in CycleOps : ops[i].afterHook = "" /\ ops'[i].afterHook # ""}

\* The step C29 speaks of: the step that merges and runs the after-hook is
\* the step that resolves the call, to the caller's object as merged; the
\* settling of the after-hook, fulfilled or rejected, changes neither the
\* call's result nor the object; and a resolved call stays resolved.
C29_Step ==
    /\ \A i \in Merging :
          /\ ops'[i].log = FullLog
          /\ ops'[i].resolved = ops[i].target
          /\ ops'[i].value = obj'[ops[i].target]
          /\ ops'[i].afterHook = ""
    /\ \A i \in AfterSettling :
          /\ ops[i].pc = "done"
          /\ ops'[i] = [ops[i] EXCEPT !.afterHook = ops'[i].afterHook]
          /\ obj' = obj
    /\ \A i \in CycleOps :
          ops[i].pc = "done" =>
              /\ ops'[i].pc = "done"
              /\ ops'[i].value = ops[i].value
              /\ ops'[i].resolved = ops[i].resolved

CalledOnCreated(i) ==
    /\ Len(ops') = Len(ops) + 1
    /\ ops'[Len(ops')].kind \in {"update", "delete"}
    /\ ops'[Len(ops')].target = ops[i].target
    /\ obj[ops[i].target] = ops[i].value

\* C30: for every bundled backend (noop, debug, Local, HTTP), update and
\* delete accept an object that a create has resolved with: they do not fail
\* with the missing-identifier error.
C30_CreatedIsAccepted ==
    [][\A i \in Created :
           (store \in {"noop", "debug", "local", "http"} /\ CalledOnCreated(i))
           => ops'[Len(ops')].pc # "threw"]_vars

====
